---------------------------- MODULE Spec2Model ----------------------------
(***************************************************************************)
(* Grade-tonnage dashboard: the proximity aggregation of deposit records   *)
(* (components/cards/gt_model.py) as it is driven by the page callback     *)
(* update_output (pages/gtmodel.py).                                       *)
(*                                                                         *)
(* A request loads the record table gt.df and the distance cache           *)
(* gt.distance_caches, then get_gt_model walks the deposit-type groups and *)
(* either passes a group through (proximity 0), skips it ("Unknown" with a *)
(* proximity other than 0) or hands it to greedy_weighted_avg_aggregation. *)
(*                                                                         *)
(* Strings are sequences of one-character strings, so that join, prefix    *)
(* and separator counts are computed and not assumed.  A grade is the      *)
(* exact fraction <<numerator, denominator>> that np.average divides;      *)
(* floating-point rounding of that division is not modelled.               *)
(***************************************************************************)
EXTENDS Integers, Sequences, FiniteSets

(***************************************************************************)
(* Bounds of the model.                                                    *)
(***************************************************************************)
\* largest distance cache tried with the records' own tonnages
MaxPairs == 2
\* largest distance cache tried with every choice of zero tonnages
MaxPairsZero == 1

\* index labels of gt.df
Index == {1, 2, 3}

\* distance(i, j) is None when the cache has no entry under that key
None == -1

\* distances the cache may hold (kilometres)
Distances == {3, 5}
\* values of the proximity input box (it sets no minimum); 0 also stands
\* for an empty box
ProximityInputs == {-1, 0, 4, 5}
\* deposit-type names of the records
DepositNames == {"Porphyry", "Unknown"}
\* (total_tonnage, total_grade) of each record when its tonnage is not zero
TonnageGrade == << <<10, 2>>, <<30, 1>>, <<20, 3>>, <<5, 4>> >>
\* the deposit-type names in the order groupby puts them (ascending)
GroupbyOrder == <<"Iron skarn", "Porphyry", "Unknown">>
ZeroTonnage(i) == <<0, TonnageGrade[i][2]>>

(***************************************************************************)
(* Columns that the aggregation only copies or concatenates are fixed per  *)
(* index label and differ from record to record.                           *)
(***************************************************************************)
NameTable ==
    << <<"A">>, <<"B">>, <<"C", ":", "c">>, <<"D", " ", "d">>, <<"E">> >>
ms_name_of(i) == NameTable[i]
ms_of(i) == <<"/">> \o NameTable[i]
commodity_of(i) == IF i % 2 = 1 THEN "Q1" ELSE "Q2"
lat_of(i) == 10 * i
lon_of(i) == 100 - i

\* one row of gt.df
Record(i, name, tg) ==
    [ ms                |-> ms_of(i),
      ms_name           |-> ms_name_of(i),
      commodity         |-> commodity_of(i),
      top1_deposit_name |-> name,
      lat               |-> lat_of(i),
      lon               |-> lon_of(i),
      total_tonnage     |-> tg[1],
      total_grade       |-> tg[2],
      \* contained metal is grade times tonnage unless a table sets it
      total_contained_metal |-> tg[1] * tg[2] ]

VARIABLES
    df,               \* gt.df: index label -> record
    distance_caches,  \* gt.distance_caches: the dict's items in insertion order
    triggered_id,     \* the button of the last request, "" before the first
    proximity_value,  \* the proximity the last request ran with
    aggregated_df,    \* gt.aggregated_df of the last request
    raised,           \* the last request ended in an exception
    figure,           \* the figure of clickable-plot: its deposit-type traces
    agg_data,         \* the store gt-agg-data
    csv               \* the rows the last event sent to download-csv, if any

vars == <<df, distance_caches, triggered_id, proximity_value, aggregated_df, raised,
          figure, agg_data, csv>>

(***************************************************************************)
(* Sequence helpers.                                                       *)
(***************************************************************************)
RECURSIVE SumSeq(_)
SumSeq(s) == IF s = <<>> THEN 0 ELSE Head(s) + SumSeq(Tail(s))

RECURSIVE Concat(_)
Concat(ss) == IF ss = <<>> THEN <<>> ELSE Head(ss) \o Concat(Tail(ss))

\* str.join: the items with sep between consecutive ones
RECURSIVE Join(_, _)
Join(sep, items) ==
    IF items = <<>> THEN <<>>
    ELSE IF Len(items) = 1 THEN items[1]
    ELSE items[1] \o sep \o Join(sep, Tail(items))

\* the labels of a set in ascending order (a DataFrame keeps its row order)
RECURSIVE Ascending(_)
Ascending(S) ==
    IF S = {} THEN <<>>
    ELSE LET m == CHOOSE x \in S : \A y \in S : x <= y
         IN  <<m>> \o Ascending(S \ {m})

(***************************************************************************)
(* The distance cache: a dict keyed by (i, j).                             *)
(***************************************************************************)
Keys(distances) == {distances[n].pair : n \in 1..Len(distances)}

\* distances.get((i, j))
Get(distances, key) ==
    LET at == {n \in 1..Len(distances) : distances[n].pair = key}
    IN  IF at = {} THEN None ELSE distances[CHOOSE n \in at : TRUE].dist

\* sorted(distances.items(), key=lambda x: x[1]): stable, ascending
RECURSIVE Sorted(_)
InsertSorted(sorted, e) ==
    LET before == {n \in 1..Len(sorted) : sorted[n].dist <= e.dist}
        k == Cardinality(before)
    IN  SubSeq(sorted, 1, k) \o <<e>> \o SubSeq(sorted, k + 1, Len(sorted))
Sorted(items) ==
    IF items = <<>> THEN <<>>
    ELSE InsertSorted(Sorted(SubSeq(items, 1, Len(items) - 1)), items[Len(items)])

\* the pairs of the sorted items flattened, kept when in valid_indices
RECURSIVE SortedRowIndices(_, _)
SortedRowIndices(sorted_distances, valid_indices) ==
    IF sorted_distances = <<>> THEN <<>>
    ELSE LET pair == Head(sorted_distances).pair
         IN  SelectSeq(pair, LAMBDA index : index \in valid_indices)
               \o SortedRowIndices(Tail(sorted_distances), valid_indices)

(***************************************************************************)
(* greedy_weighted_avg_aggregation(df, distances, proximity_threshold).    *)
(* df is the group's sub-table: a function from its index labels to rows.  *)
(***************************************************************************)
\* the test that lets j join the cluster of seed i (distance = get((i, j)))
MergeableOrEqual(distance, proximity_threshold) ==
    distance # None /\ distance <= proximity_threshold
MergeableUnknown(distance, proximity_threshold) ==
    distance < proximity_threshold
Mergeable(distance, proximity_threshold) ==
    distance # None /\ distance < proximity_threshold

\* the inner loop: scan the same index list for unprocessed neighbours of i
RECURSIVE Nearby(_, _, _, _, _, _)
Nearby(i, rest, distances, proximity_threshold, valid_indices, acc) ==
    IF rest = <<>> THEN acc
    ELSE LET j == Head(rest)
             take == /\ i # j
                     /\ j \notin acc.processed_indices
                     /\ Mergeable(Get(distances, <<i, j>>), proximity_threshold)
                     /\ j \in valid_indices
             next == IF take
                     THEN [group |-> Append(acc.group, j),
                           processed_indices |-> acc.processed_indices \cup {j}]
                     ELSE acc
         IN  Nearby(i, Tail(rest), distances, proximity_threshold, valid_indices, next)

\* df.loc[group, column] as a list
Column(d, group, column) == [k \in 1..Len(group) |-> d[group[k]][column]]

\* df.loc[group, "total_tonnage"].sum()
TotalTonnage(d, group) == SumSeq(Column(d, group, "total_tonnage"))

\* np.average(grades, weights=tonnages): sum(g * w) / sum(w), kept as a fraction
UnweightedGrade(d, group) ==
    <<SumSeq(Column(d, group, "total_grade")), Len(group)>>
WeightedGrade(d, group) ==
    << SumSeq([k \in 1..Len(group) |->
                 d[group[k]].total_grade * d[group[k]].total_tonnage]),
       SumSeq(Column(d, group, "total_tonnage")) >>

\* np.average raises ZeroDivisionError when the weights sum to zero
AverageRaises(d, group) == SumSeq(Column(d, group, "total_tonnage")) = 0

Separator == <<":", ":", " ">>

\* the "::"-joined field of a cluster, prefixed when it has several members
CombinedNoPrefix(items) == Join(Separator, items)
Combined(items) ==
    IF Len(items) > 1 THEN Separator \o Join(Separator, items)
    ELSE Join(Separator, items)

\* the record whose commodity, deposit name, lat and lon the row carries
LastMember(group) == group[Len(group)]
Representative(group) == group[1]

\* the dict appended to aggregated_data; members is the list `group` itself
ClusterRow(d, group) ==
    [ total_grade       |-> WeightedGrade(d, group),
      total_tonnage     |-> TotalTonnage(d, group),
      ms_name           |-> Combined(Column(d, group, "ms_name")),
      ms                |-> Combined(Column(d, group, "ms")),
      commodity         |-> d[Representative(group)].commodity,
      top1_deposit_name |-> d[Representative(group)].top1_deposit_name,
      lat               |-> d[Representative(group)].lat,
      lon               |-> d[Representative(group)].lon,
      members           |-> group ]

\* the outer loop over sorted_row_indices
RECURSIVE Seeds(_, _, _, _, _, _)
Seeds(rest, sorted_row_indices, d, distances, proximity_threshold, acc) ==
    IF rest = <<>> \/ ~acc.ok THEN acc
    ELSE LET i == Head(rest)
             valid_indices == DOMAIN d
             opened == Nearby(i, sorted_row_indices, distances, proximity_threshold,
                              valid_indices,
                              [group |-> <<i>>,
                               processed_indices |-> acc.processed_indices \cup {i}])
             group == SelectSeq(opened.group, LAMBDA idx : idx \in valid_indices)
             next ==
                 IF i \in acc.processed_indices THEN acc
                 ELSE IF group = <<>>
                 THEN [acc EXCEPT !.processed_indices = opened.processed_indices]
                 ELSE IF AverageRaises(d, group)
                 THEN [acc EXCEPT !.ok = FALSE]
                 ELSE [ok |-> TRUE,
                       processed_indices |-> opened.processed_indices,
                       rows |-> Append(acc.rows, ClusterRow(d, group))]
         IN  Seeds(Tail(rest), sorted_row_indices, d, distances, proximity_threshold, next)

\* the call: [ok |-> FALSE] stands for the exception leaving the function
greedy_weighted_avg_aggregation(d, distances, proximity_threshold) ==
    LET sorted_row_indices == SortedRowIndices(Sorted(distances), DOMAIN d)
        out == Seeds(sorted_row_indices, sorted_row_indices, d, distances,
                     proximity_threshold,
                     [ok |-> TRUE, processed_indices |-> {}, rows |-> <<>>])
    IN  [ok |-> out.ok, rows |-> out.rows]

(***************************************************************************)
(* get_gt_model(gt, proximity_value).                                      *)
(***************************************************************************)
\* gt.df[gt.df["top1_deposit_name"] == d_type]
Filtered(d, d_type) ==
    [i \in {x \in DOMAIN d : d[x].top1_deposit_name = d_type} |-> d[i]]

\* gt.df["avg_metal_per_tonnage"] of one record, as pandas divides floats:
\* 0/0 is NaN, x/0 is inf, otherwise the fraction <<metal, tonnage>>
MetalPerTonnage(r) ==
    IF r.total_tonnage # 0
    THEN [class |-> "finite", value |-> <<r.total_contained_metal, r.total_tonnage>>]
    ELSE IF r.total_contained_metal = 0
    THEN [class |-> "nan", value |-> <<0, 1>>]
    ELSE [class |-> "inf", value |-> <<1, 1>>]

\* the sum of a list of fractions
RECURSIVE FractionSum(_)
FractionSum(fs) ==
    IF fs = <<>> THEN <<0, 1>>
    ELSE LET rest == FractionSum(Tail(fs))
         IN  <<Head(fs)[1] * rest[2] + rest[1] * Head(fs)[2], Head(fs)[2] * rest[2]>>

\* the "mean" aggregate of a group: NaN values are skipped
AvgMetalPerTonnage(d, label) ==
    LET group == Filtered(d, label)
        order == Ascending(DOMAIN group)
        all == [k \in 1..Len(order) |-> MetalPerTonnage(group[order[k]])]
        numbers == SelectSeq(all, LAMBDA x : x.class # "nan")
        finite == SelectSeq(all, LAMBDA x : x.class = "finite")
        total == FractionSum([k \in 1..Len(finite) |-> finite[k].value])
    IN  IF numbers = <<>> THEN [class |-> "nan", value |-> <<0, 1>>]
        ELSE IF Len(finite) < Len(numbers) THEN [class |-> "inf", value |-> <<1, 1>>]
        ELSE [class |-> "finite", value |-> <<total[1], total[2] * Len(finite)>>]

\* the "count" aggregate of a group
Count(d, label) == Cardinality(DOMAIN Filtered(d, label))

\* a above b in a descending sort with NaN last
Above(a, b) ==
    \/ a.class = "inf" /\ b.class # "inf"
    \/ a.class = "finite" /\ b.class = "nan"
    \/ /\ a.class = "finite" /\ b.class = "finite"
       /\ a.value[1] * b.value[2] > b.value[1] * a.value[2]
Position(label) == CHOOSE k \in 1..Len(GroupbyOrder) : GroupbyOrder[k] = label

\* label l stands before label m after sort_values(by=["count",
\* "avg_metal_per_tonnage"], ascending=[False, False]); rows equal in both
\* keys keep the order of the grouped frame
Before(d, l, m) ==
    \/ Count(d, l) > Count(d, m)
    \/ /\ Count(d, l) = Count(d, m)
       /\ \/ Above(AvgMetalPerTonnage(d, l), AvgMetalPerTonnage(d, m))
          \/ /\ ~Above(AvgMetalPerTonnage(d, m), AvgMetalPerTonnage(d, l))
             /\ Position(l) < Position(m)

RECURSIVE SortValues(_, _)
SortValues(d, labels) ==
    IF labels = {} THEN <<>>
    ELSE LET top == CHOOSE l \in labels : \A m \in labels \ {l} : Before(d, l, m)
         IN  <<top>> \o SortValues(d, labels \ {top})

\* the sorted labels with "Unknown" left where the sort put it
UniqueLabelsSorted(d) ==
    SortValues(d, {d[i].top1_deposit_name : i \in DOMAIN d})
\* unique_labels: the sorted labels, "Unknown" removed and appended
UniqueLabels(d) ==
    LET sorted == SortValues(d, {d[i].top1_deposit_name : i \in DOMAIN d})
    IN  IF \E k \in 1..Len(sorted) : sorted[k] = "Unknown"
        THEN SelectSeq(sorted, LAMBDA l : l # "Unknown") \o <<"Unknown">>
        ELSE sorted

\* a row of gt.df as it stands in the output when nothing is aggregated
RecordRow(d, i) ==
    [ total_grade       |-> <<d[i].total_grade, 1>>,
      total_tonnage     |-> d[i].total_tonnage,
      ms_name           |-> d[i].ms_name,
      ms                |-> d[i].ms,
      commodity         |-> d[i].commodity,
      top1_deposit_name |-> d[i].top1_deposit_name,
      lat               |-> d[i].lat,
      lon               |-> d[i].lon,
      members           |-> <<i>> ]
PassThrough(df_filtered) ==
    LET order == Ascending(DOMAIN df_filtered)
    IN  [k \in 1..Len(order) |-> RecordRow(df_filtered, order[k])]

\* the body of the loop up to the append: what becomes of one group
AggregateGroupAlways(d_type, df_filtered, distances, proximity) ==
    IF d_type = "Unknown" /\ proximity # 0
    THEN [skip |-> TRUE, ok |-> TRUE, rows |-> <<>>]
    ELSE LET r == greedy_weighted_avg_aggregation(df_filtered, distances, proximity)
         IN  [skip |-> FALSE, ok |-> r.ok, rows |-> r.rows]
AggregateGroup(d_type, df_filtered, distances, proximity) ==
    IF proximity # 0
    THEN IF d_type = "Unknown"
         THEN [skip |-> TRUE, ok |-> TRUE, rows |-> <<>>]
         ELSE LET r == greedy_weighted_avg_aggregation(df_filtered, distances, proximity)
              IN  [skip |-> FALSE, ok |-> r.ok, rows |-> r.rows]
    ELSE [skip |-> FALSE, ok |-> TRUE, rows |-> PassThrough(df_filtered)]

\* the loop over unique_labels.  An exception ends it: the aggregation may
\* raise before the append, and the trace of an aggregated table without
\* rows (pd.DataFrame([]) has no column "total_tonnage") raises after it.
RECURSIVE Groups(_, _, _, _, _)
Groups(labels, d, distances, proximity, acc) ==
    IF labels = <<>> \/ acc.raised THEN acc
    ELSE LET d_type == Head(labels)
             r == AggregateGroup(d_type, Filtered(d, d_type), distances, proximity)
             next ==
                 IF r.skip THEN acc
                 ELSE IF ~r.ok THEN [acc EXCEPT !.raised = TRUE]
                 ELSE [tables |-> Append(acc.tables,
                                         [d_type |-> d_type, rows |-> r.rows]),
                       raised |-> r.rows = <<>>]
         IN  Groups(Tail(labels), d, distances, proximity, next)

get_gt_model(d, distances, proximity) ==
    Groups(UniqueLabels(d), d, distances, proximity,
           [tables |-> <<>>, raised |-> FALSE])

(***************************************************************************)
(* The request: update_output.                                             *)
(***************************************************************************)
Pairs == {p \in Index \X Index : p[1] # p[2]}
Entries == [pair : Pairs, dist : Distances]
Caches(max) ==
    {c \in UNION {[1..n -> Entries] : n \in 0..max} :
        \A m, n \in 1..Len(c) : m # n => c[m].pair # c[n].pair}
Tables(tonnage_grade) ==
    {[i \in Index |-> Record(i, name[i], tg[i])] :
        name \in [Index -> DepositNames], tg \in tonnage_grade}
OwnTonnage == {[i \in Index |-> TonnageGrade[i]]}
AnyTonnage == {tg \in [Index -> UNION {{TonnageGrade[i], ZeroTonnage(i)} : i \in Index}] :
                  \A i \in Index : tg[i] \in {TonnageGrade[i], ZeroTonnage(i)}}

\* the data of a request: any grouping of the records; either the larger
\* caches with each record's own tonnage, or the smaller ones with any
\* choice of records of tonnage zero
\* the state of the page before the first request
PageLoaded ==
    /\ triggered_id = ""
    /\ proximity_value = 0
    /\ aggregated_df = <<>>
    /\ raised = FALSE
    /\ figure = [present |-> FALSE, data |-> <<>>]
    /\ agg_data = <<>>
    /\ csv = [header |-> <<>>, rows |-> <<>>]

Init ==
    /\ \/ df \in Tables(OwnTonnage) /\ distance_caches \in Caches(MaxPairs)
       \/ df \in Tables(AnyTonnage) /\ distance_caches \in Caches(MaxPairsZero)
    /\ PageLoaded

\* the words of a deposit-type name, as str.split() finds them
Words(d_type) == IF d_type = "Iron skarn" THEN <<"Iron", "skarn">> ELSE <<d_type>>
CountToken(n) == <<"(0)", "(1)", "(2)", "(3)", "(4)", "(5)">>[n + 1]
\* f"{d_type} ({deposit_count})", as its whitespace-separated words
TraceName(d_type, deposit_count) == Words(d_type) \o <<CountToken(deposit_count)>>
\* " ".join(name.split()[:-1])
TraceGroup(name) ==
    LET front == SubSeq(name, 1, Len(name) - 1)
    IN  CHOOSE l \in {GroupbyOrder[k] : k \in 1..Len(GroupbyOrder)} : Words(l) = front

\* the names of the traces of a figure that are visible (not "legendonly")
VisibleTraces(fig) ==
    LET shown == SelectSeq(fig.data, LAMBDA trace : trace.visible = "True")
    IN  [k \in 1..Len(shown) |-> TraceGroup(shown[k].name)]

\* gt.visible_traces of a new GradeTonnage
InitialVisibleTraces == <<>>

\* the deposit-type traces get_gt_model adds, one per table, and the
\* visibility it gives them at the end
Traces(tables, d, visible_traces) ==
    [t \in 1..Len(tables) |->
        [name |-> TraceName(tables[t].d_type, Count(d, tables[t].d_type)),
         visible |-> IF Len(visible_traces) > 0
                     THEN IF \E k \in 1..Len(visible_traces) :
                                 visible_traces[k] = tables[t].d_type
                          THEN "True" ELSE "legendonly"
                     ELSE "True"]]

\* update_output: lines 267-270 choose the proximity, lines 293-300 read the
\* visible traces of the current figure, line 331 builds the model.  An
\* exception leaves the outputs of the callback as they were.
Render(trigger, proximity) ==
    LET visible_traces ==
            IF trigger = "aggregate-btn" /\ figure.present
            THEN VisibleTraces(figure) ELSE InitialVisibleTraces
    IN  \E out \in {get_gt_model(df, distance_caches, proximity)} :
        /\ triggered_id' = trigger
        /\ proximity_value' = proximity
        /\ aggregated_df' = out.tables
        /\ raised' = out.raised
        /\ figure' = IF out.raised THEN figure
                     ELSE [present |-> TRUE,
                           data |-> Traces(out.tables, df, visible_traces)]
        /\ agg_data' = IF out.raised THEN agg_data ELSE out.tables
        /\ UNCHANGED <<df, distance_caches, csv>>

Generate == Render("generate-btn", 0)

\* the Aggregate button is on the page only while the figure has data
Aggregate == \E user_proximity_value \in ProximityInputs :
    /\ figure.present
    /\ Render("aggregate-btn", user_proximity_value)

Next == Generate \/ Aggregate

Spec == Init /\ [][Next]_vars

(***************************************************************************)
(* The legend of the plot and the download: download_csv.                  *)
(***************************************************************************)
\* a click on a legend entry shows or hides the trace in the figure that the
\* callbacks read as State("clickable-plot", "figure")
ToggleTrace == \E k \in 1..Len(figure.data) :
    /\ figure.present
    /\ figure' = [figure EXCEPT !.data[k].visible =
                      IF @ = "True" THEN "legendonly" ELSE "True"]
    /\ UNCHANGED <<df, distance_caches, triggered_id, proximity_value,
                   aggregated_df, raised, agg_data, csv>>

\* pattern in x
Contains(x, pattern) ==
    \E k \in 1..(Len(x) - Len(pattern) + 1) :
        SubSeq(x, k, k + Len(pattern) - 1) = pattern
\* x.replace(pattern, by): the occurrences from left to right, not overlapping
RECURSIVE Replace(_, _, _)
Replace(x, pattern, by) ==
    IF Len(x) < Len(pattern) THEN x
    ELSE IF SubSeq(x, 1, Len(pattern)) = pattern
    THEN by \o Replace(SubSeq(x, Len(pattern) + 1, Len(x)), pattern, by)
    ELSE <<Head(x)>> \o Replace(Tail(x), pattern, by)
\* lambda x: x[2:].replace("::", ",") if "::" in x else x
CleanUp(x) ==
    IF Contains(x, <<":", ":">>)
    THEN Replace(SubSeq(x, 3, Len(x)), <<":", ":">>, <<",">>)
    ELSE x

column_names ==
    <<"Mineral Site URL", "Mineral Site Name", "Commodity", "Deposit Name",
      "Latitude", "Longitude", "Total Tonnage(Million tonnes)",
      "Total Grade(Percent)">>
\* the eight columns of a row, ms and ms_name cleaned up
Exported(row) ==
    <<CleanUp(row.ms), CleanUp(row.ms_name), row.commodity,
      row.top1_deposit_name, row.lat, row.lon, row.total_tonnage,
      row.total_grade>>
\* pd.concat of the tables, the rows of the visible traces kept
VisibleRows(tables, fig) ==
    LET all == Concat([t \in 1..Len(tables) |-> tables[t].rows])
    IN  SelectSeq(all, LAMBDA row :
            \E k \in 1..Len(VisibleTraces(fig)) :
                VisibleTraces(fig)[k] = row.top1_deposit_name)

\* download_csv: nothing is sent when the tables are missing or no row is
\* left; the Download button is on the page only while the figure has data
DownloadCsv ==
    /\ figure.present
    /\ LET kept == VisibleRows(agg_data, figure)
       IN  csv' = IF kept = <<>> THEN csv
                  ELSE [header |-> column_names,
                        rows |-> [k \in 1..Len(kept) |-> Exported(kept[k])]]
    /\ UNCHANGED <<df, distance_caches, triggered_id, proximity_value,
                   aggregated_df, raised, figure, agg_data>>

AppCaches ==
    { <<>>,
      <<[pair |-> <<1, 2>>, dist |-> 3]>>,
      <<[pair |-> <<2, 3>>, dist |-> 5]>>,
      <<[pair |-> <<1, 2>>, dist |-> 3], [pair |-> <<1, 3>>, dist |-> 3]>> }

InitApp ==
    /\ df \in Tables(OwnTonnage)
    /\ distance_caches \in AppCaches
    /\ PageLoaded

NextApp == Generate \/ Aggregate \/ ToggleTrace \/ DownloadCsv

SpecApp == InitApp /\ [][NextApp]_vars

(***************************************************************************)
(* The same requests over tables that exercise the ranking of the groups:  *)
(* four records, three deposit-type names, and a contained metal of once   *)
(* or twice the tonnage; the cache is empty or mentions every record.      *)
(***************************************************************************)
RankIndex == {1, 2, 3, 4}
RankNames == {GroupbyOrder[k] : k \in 1..Len(GroupbyOrder)}
RankTables ==
    {[i \in RankIndex |->
         [Record(i, name[i], TonnageGrade[i])
             EXCEPT !.total_contained_metal = ratio[i] * TonnageGrade[i][1]]] :
        name \in [RankIndex -> RankNames], ratio \in [RankIndex -> {1, 2}]}
RankCaches ==
    { <<>>,
      <<[pair |-> <<1, 2>>, dist |-> 3], [pair |-> <<3, 4>>, dist |-> 5]>> }

InitRank ==
    /\ df \in RankTables
    /\ distance_caches \in RankCaches
    /\ PageLoaded

SpecRank == InitRank /\ [][Next]_vars

(***************************************************************************)
(* What the properties speak about.                                        *)
(***************************************************************************)
\* the tables greedy_weighted_avg_aggregation returned in the last request
GreedyTables ==
    IF proximity_value = 0 THEN {}
    ELSE {aggregated_df[t] : t \in 1..Len(aggregated_df)}
RowsOf(table) == {table.rows[k] : k \in 1..Len(table.rows)}
\* the cluster rows it produced
Clusters == UNION {RowsOf(table) : table \in GreedyTables}
\* the index labels of a deposit-type group
GroupIndex(d_type) == DOMAIN Filtered(df, d_type)
Range(s) == {s[k] : k \in 1..Len(s)}
Occurrences(s, x) == Cardinality({k \in 1..Len(s) : s[k] = x})
\* the member lists of a table, one after the other
MembersOf(table) == Concat([k \in 1..Len(table.rows) |-> table.rows[k].members])
Partition(rows) == {Range(rows[k].members) : k \in 1..Len(rows)}
Known(i, j) == Get(distance_caches, <<i, j>>) # None
\* the distance of i and j looked up in both key orders
Below(i, j, threshold) ==
    \/ Known(i, j) /\ Get(distance_caches, <<i, j>>) < threshold
    \/ Known(j, i) /\ Get(distance_caches, <<j, i>>) < threshold
Mentioned(i) == \E key \in Keys(distance_caches) : i \in Range(key)

(***************************************************************************)
(* C1: after greedy_weighted_avg_aggregation the member lists of a group's *)
(* clusters, taken together as a multiset, are the group's index set: each *)
(* record of the group is in exactly one cluster.                          *)
(***************************************************************************)
C1_Partition ==
    ~raised =>
        \A table \in GreedyTables : \A i \in Index :
            Occurrences(MembersOf(table), i) =
                IF i \in GroupIndex(table.d_type) THEN 1 ELSE 0

(***************************************************************************)
(* C2: with proximity 0 the output is the input: one singleton row per     *)
(* record, carrying the record's own values, whatever the cache holds.     *)
(***************************************************************************)
C2_ZeroIsIdentity ==
    (triggered_id # "" /\ proximity_value = 0) =>
        /\ ~raised
        /\ Len(aggregated_df) = Len(UniqueLabels(df))
        /\ \A t \in 1..Len(aggregated_df) :
              LET table == aggregated_df[t]
                  group == GroupIndex(table.d_type)
              IN  /\ table.d_type = UniqueLabels(df)[t]
                  /\ Len(table.rows) = Cardinality(group)
                  /\ \A i \in group : \E k \in 1..Len(table.rows) :
                        table.rows[k] = RecordRow(df, i)

\* an Aggregate click with proximity 0 although the cache holds a distance
\* below the other thresholds between two records of one aggregated group
C2_Witness ==
    /\ triggered_id = "aggregate-btn"
    /\ proximity_value = 0
    /\ \E i, j \in GroupIndex("Porphyry") : Known(i, j)

(***************************************************************************)
(* C3: a record of the group that no cache entry mentions comes out as a   *)
(* singleton cluster; two records of a group whose mutual distance is      *)
(* absent come out as two singleton clusters.                              *)
(***************************************************************************)
C3_UnknownIsSingleton ==
    ~raised => \A table \in GreedyTables :
        LET group == GroupIndex(table.d_type)
        IN  /\ \A i \in group :
                  ~Mentioned(i) => \E row \in RowsOf(table) : row.members = <<i>>
            /\ \A i, j \in group :
                  (group = {i, j} /\ i # j /\ ~Known(i, j) /\ ~Known(j, i)) =>
                      Partition(table.rows) = {{i}, {j}}

(***************************************************************************)
(* C4: when exactly one pair (A, B) of the group has a known distance      *)
(* below the threshold and every other record has no distance below the    *)
(* threshold to any record, the clusters are {A, B} and one singleton for  *)
(* each other record.                                                      *)
(***************************************************************************)
C4_OnePairMerged ==
    ~raised => \A table \in GreedyTables :
        LET group == GroupIndex(table.d_type)
            close == {p \in group \X group :
                         p[1] < p[2] /\ Below(p[1], p[2], proximity_value)}
        IN  \A p \in close :
               ( /\ close = {p}
                 /\ \A c \in group \ {p[1], p[2]} : \A x \in Index :
                       ~Below(c, x, proximity_value) ) =>
               Partition(table.rows) =
                   {{p[1], p[2]}} \cup {{c} : c \in group \ {p[1], p[2]}}

(***************************************************************************)
(* C5: every member of a cluster other than its seed (the first member)    *)
(* has a known distance to the seed, under the key (seed, member), that is *)
(* strictly below the threshold: neither a distance equal to the threshold *)
(* nor an absent one causes a merge.                                       *)
(***************************************************************************)
C5_MembersBelowThreshold ==
    \A row \in Clusters : \A k \in 2..Len(row.members) :
        LET distance == Get(distance_caches, <<row.members[1], row.members[k]>>)
        IN  distance # None /\ distance < proximity_value

\* a cluster of two or more, and beside it a seed whose neighbour at exactly
\* the threshold stayed outside its cluster
C5_Witness ==
    /\ \E row \in Clusters : Len(row.members) >= 2
    /\ \E row \in Clusters : \E j \in GroupIndex(row.top1_deposit_name) :
          /\ Get(distance_caches, <<row.members[1], j>>) = proximity_value
          /\ j \notin Range(row.members)

(***************************************************************************)
(* C6 as claimed: no two records whose mutual distance is absent from the  *)
(* cache in both key orders are in the same cluster.                       *)
(***************************************************************************)
C6_NoUnknownPairTogether ==
    \A row \in Clusters : \A a, b \in Range(row.members) :
        a # b => (Known(a, b) \/ Known(b, a))

(***************************************************************************)
(* C6 as amended: no record is in a cluster whose seed is at unknown       *)
(* distance from it; only two members other than the seed can be together  *)
(* with their mutual distance unknown.                                     *)
(***************************************************************************)
C6_NoUnknownToSeed ==
    \A row \in Clusters : \A a, b \in Range(row.members) :
        (a # b /\ ~Known(a, b) /\ ~Known(b, a)) =>
            (a # row.members[1] /\ b # row.members[1])

\* two members joined through the seed although their own distance is unknown
C6_Witness ==
    \E row \in Clusters :
        /\ Len(row.members) = 3
        /\ ~Known(row.members[2], row.members[3])
        /\ ~Known(row.members[3], row.members[2])

(***************************************************************************)
(* C7: the partition of a group is the same whether the cache stores a     *)
(* pair's distance under (i, j) or under (j, i).                           *)
(***************************************************************************)
\* the cache with the key of its n-th entry reversed
Reversed(distances, n) ==
    [distances EXCEPT ![n].pair = <<distances[n].pair[2], distances[n].pair[1]>>]

C7_KeyOrderIrrelevant ==
    ~raised => \A table \in GreedyTables : \A n \in 1..Len(distance_caches) :
        LET other == Reversed(distance_caches, n)
            again == greedy_weighted_avg_aggregation(
                         Filtered(df, table.d_type), other, proximity_value)
        IN  other[n].pair \notin Keys(distance_caches) =>
                (again.ok /\ Partition(again.rows) = Partition(table.rows))

(***************************************************************************)
(* C8 as claimed: a cluster's total_tonnage is the sum of its members'     *)
(* tonnages, its total_grade times its total_tonnage is the sum of grade   *)
(* times tonnage over the members, and A(10, 2) merged with B(30, 1) has   *)
(* total_tonnage 40 and total_grade 1.                                     *)
(***************************************************************************)
GradeTonnageSum(group) ==
    SumSeq([k \in 1..Len(group) |->
               df[group[k]].total_grade * df[group[k]].total_tonnage])
TonnageSum(group) == SumSeq([k \in 1..Len(group) |-> df[group[k]].total_tonnage])
\* total_grade (a fraction) times total_tonnage equals the sum of grade * tonnage
WeightedAverage(row) ==
    /\ row.total_tonnage = TonnageSum(row.members)
    /\ row.total_grade[2] # 0
    /\ row.total_grade[1] * row.total_tonnage
           = GradeTonnageSum(row.members) * row.total_grade[2]
\* the cluster of the example: two members, (10, 2) and (30, 1)
IsExample(row) ==
    /\ Len(row.members) = 2
    /\ {<<df[i].total_tonnage, df[i].total_grade>> : i \in Range(row.members)}
          = {<<10, 2>>, <<30, 1>>}

C8_ExampleGradeOne ==
    \A row \in Clusters :
        /\ WeightedAverage(row)
        /\ IsExample(row) =>
              (row.total_tonnage = 40 /\ row.total_grade[1] = row.total_grade[2])

(***************************************************************************)
(* C8 as amended: the same, the example's total_grade being 50/40 = 1.25.  *)
(***************************************************************************)
C8_WeightedAverage ==
    \A row \in Clusters :
        /\ WeightedAverage(row)
        /\ IsExample(row) =>
              (row.total_tonnage = 40 /\ 4 * row.total_grade[1] = 5 * row.total_grade[2])

C8_Witness == \E row \in Clusters : IsExample(row)

(***************************************************************************)
(* C9: the ms_name and ms of a cluster of two or more start with "::" and, *)
(* after that prefix, hold member_count - 1 further "::", the members'     *)
(* names standing between them in cluster-build order; a cluster of one    *)
(* carries the member's name as it is.                                     *)
(***************************************************************************)
StartsWith(s, prefix) ==
    Len(s) >= Len(prefix) /\ SubSeq(s, 1, Len(prefix)) = prefix
Drop(s, n) == SubSeq(s, n + 1, Len(s))
\* str.count: occurrences found left to right, not overlapping
RECURSIVE CountOf(_, _)
CountOf(s, pattern) ==
    IF Len(s) < Len(pattern) THEN 0
    ELSE IF StartsWith(s, pattern) THEN 1 + CountOf(Drop(s, Len(pattern)), pattern)
    ELSE CountOf(Tail(s), pattern)
\* str.split(pattern)
RECURSIVE SplitOn(_, _, _)
SplitOn(s, pattern, piece) ==
    IF Len(s) < Len(pattern) THEN <<piece \o s>>
    ELSE IF StartsWith(s, pattern)
    THEN <<piece>> \o SplitOn(Drop(s, Len(pattern)), pattern, <<>>)
    ELSE SplitOn(Tail(s), pattern, Append(piece, Head(s)))
Colons == <<":", ":">>

Concatenated(field, names) ==
    IF Len(names) >= 2
    THEN /\ StartsWith(field, Colons)
         /\ CountOf(Drop(field, Len(Colons)), Colons) = Len(names) - 1
         /\ SplitOn(field, Colons, <<>>)
               = << <<>> >> \o [k \in 1..Len(names) |-> <<" ">> \o names[k]]
    ELSE field = names[1]

C9_ConcatenatedNames ==
    \A row \in Clusters :
        /\ Concatenated(row.ms_name,
                        [k \in 1..Len(row.members) |-> df[row.members[k]].ms_name])
        /\ Concatenated(row.ms,
                        [k \in 1..Len(row.members) |-> df[row.members[k]].ms])

\* a cluster of several, one of them named with a colon, beside a cluster of one
C9_Witness ==
    /\ \E row \in Clusters : Len(row.members) >= 2 /\ 3 \in Range(row.members)
    /\ \E row \in Clusters : Len(row.members) = 1

(***************************************************************************)
(* C10: the commodity, top1_deposit_name, lat and lon of a cluster row are *)
(* those of its seed, the first member added to the cluster.               *)
(***************************************************************************)
C10_SeedFields ==
    \A row \in Clusters :
        LET seed == df[row.members[1]]
        IN  /\ row.commodity = seed.commodity
            /\ row.top1_deposit_name = seed.top1_deposit_name
            /\ row.lat = seed.lat
            /\ row.lon = seed.lon

\* a cluster whose later member differs from the seed in commodity and place
C10_Witness ==
    \E row \in Clusters : \E k \in 2..Len(row.members) :
        /\ df[row.members[k]].commodity # df[row.members[1]].commodity
        /\ df[row.members[k]].lat # df[row.members[1]].lat
        /\ df[row.members[k]].lon # df[row.members[1]].lon

(***************************************************************************)
(* C11: the groups come in the order of their record count, descending,    *)
(* ties broken by the average of contained metal / tonnage, descending,    *)
(* except that "Unknown", when present, is last whatever its count and     *)
(* average; with nothing aggregated every group of the table is there.     *)
(***************************************************************************)
GroupSize(label) == Cardinality({i \in DOMAIN df : df[i].top1_deposit_name = label})
\* the sum over the group of metal / tonnage (tonnages are not zero here)
RatioSum(label) ==
    LET order == Ascending({i \in DOMAIN df : df[i].top1_deposit_name = label})
    IN  FractionSum([k \in 1..Len(order) |->
            <<df[order[k]].total_contained_metal, df[order[k]].total_tonnage>>])
\* the average of a is at least the average of b, for groups of one size
AverageAtLeast(a, b) ==
    RatioSum(a)[1] * RatioSum(b)[2] >= RatioSum(b)[1] * RatioSum(a)[2]

C11_Ranked ==
    LET order == [t \in 1..Len(aggregated_df) |-> aggregated_df[t].d_type]
    IN  /\ \A t \in 1..Len(order) : order[t] = "Unknown" => t = Len(order)
        /\ \A t, u \in 1..Len(order) :
              (t < u /\ order[u] # "Unknown") =>
                  \/ GroupSize(order[t]) > GroupSize(order[u])
                  \/ /\ GroupSize(order[t]) = GroupSize(order[u])
                     /\ AverageAtLeast(order[t], order[u])
        /\ (triggered_id # "" /\ proximity_value = 0) =>
              /\ Range(order) = {df[i].top1_deposit_name : i \in DOMAIN df}
              /\ Len(order) = Cardinality(Range(order))

\* "Unknown" is the largest group and still last; the two others are equal
\* in count and the average decides against the order of the grouped frame
C11_Witness ==
    /\ triggered_id = "generate-btn"
    /\ GroupSize("Unknown") = 2
    /\ GroupSize("Porphyry") = 1
    /\ GroupSize("Iron skarn") = 1
    /\ ~AverageAtLeast("Iron skarn", "Porphyry")
    /\ Len(aggregated_df) = 3
    /\ aggregated_df[1].d_type = "Porphyry"
    /\ aggregated_df[3].d_type = "Unknown"

(***************************************************************************)
(* C12: when aggregation is requested with a threshold above 0 and runs    *)
(* to its end, every record of the group "Unknown" is in the output        *)
(* dataset as a cluster of its own.                                        *)
(***************************************************************************)
C12_UnknownPassedThrough ==
    (triggered_id = "aggregate-btn" /\ proximity_value > 0 /\ ~raised) =>
        \A i \in GroupIndex("Unknown") :
            \E t \in 1..Len(aggregated_df) :
                \E k \in 1..Len(aggregated_df[t].rows) :
                    aggregated_df[t].rows[k].members = <<i>>

(***************************************************************************)
(* C13: a request to aggregate with a proximity below 0 runs no            *)
(* aggregation and produces no output dataset.                             *)
(***************************************************************************)
C13_NegativeRejected ==
    (triggered_id = "aggregate-btn" /\ proximity_value < 0 /\ ~raised) =>
        aggregated_df = <<>>

(***************************************************************************)
(* C14: no request with a proximity of 0 or more is aborted by a           *)
(* computational edge case; stated for                                     *)
(* the tables whose aggregated records are all mentioned in the distance   *)
(* cache, where no group's aggregation comes out empty and the only edge   *)
(* case left is a cluster whose tonnages sum to 0.                         *)
(***************************************************************************)
C14_NeverAborts ==
    (/\ proximity_value >= 0
     /\ \A i \in DOMAIN df : df[i].top1_deposit_name # "Unknown" => Mentioned(i))
        => ~raised

(***************************************************************************)
(* C15: the output of a request does not depend on the insertion order of  *)
(* the distance cache: the same mapping from pairs to distances, inserted  *)
(* in any other order, gives the same tables, the same cluster order and   *)
(* the same member order.                                                  *)
(***************************************************************************)
Reorderings(distances) ==
    {other \in [1..Len(distances) -> Range(distances)] :
        Range(other) = Range(distances)}

C15_InsertionOrderIrrelevant ==
    (triggered_id # "" /\ proximity_value >= 0 /\ ~raised) =>
        \A other \in Reorderings(distance_caches) :
            get_gt_model(df, other, proximity_value).tables = aggregated_df

(***************************************************************************)
(* C16: a download exports exactly the cluster rows of the visible groups, *)
(* and in each exported row the ms and ms_name of a cluster of several     *)
(* members are the member names joined by ", " with nothing before the     *)
(* first name, the fields of a single member being unchanged.              *)
(***************************************************************************)
JoinedNames(names) == Join(<<",", " ">>, names)
ExpectedExport(row) ==
    <<JoinedNames([k \in 1..Len(row.members) |-> ms_of(row.members[k])]),
      JoinedNames([k \in 1..Len(row.members) |-> ms_name_of(row.members[k])]),
      row.commodity, row.top1_deposit_name, row.lat, row.lon,
      row.total_tonnage, row.total_grade>>

C16_ExportedNamesJoined ==
    [][(DownloadCsv /\ VisibleRows(agg_data, figure) # <<>>) =>
          LET kept == VisibleRows(agg_data, figure)
          IN  csv'.rows = [k \in 1..Len(kept) |-> ExpectedExport(kept[k])]]_vars

(***************************************************************************)
(* C17: after an Aggregate click that completes, a trace of the new figure *)
(* is visible exactly when its group was visible in the figure before the  *)
(* click, also when no group was visible; every other trace is            *)
(* "legendonly".                                                           *)
(***************************************************************************)
C17_VisibilityPreserved ==
    [][(Aggregate /\ proximity_value' >= 0 /\ ~raised') =>
          \A k \in 1..Len(figure'.data) :
              figure'.data[k].visible =
                  IF TraceGroup(figure'.data[k].name) \in Range(VisibleTraces(figure))
                  THEN "True" ELSE "legendonly"]_vars

=============================================================================
